---- MODULE Spec2Model ----
(***************************************************************************)
(* A model of workflows/train_bandit.py: the feature-order resolver        *)
(* (get_preprocess_feature_order), the per-feature encoder                 *)
(* (preprocess_feature), the dataset preprocessor (preprocess_data) and    *)
(* the tensor assembler (data_to_pytorch).                                 *)
(*                                                                         *)
(* pandas / numpy / scikit-learn / torch calls are modelled by what they   *)
(* do to the data the code hands them:                                     *)
(*   - a DataFrame is a record [index, columns, rows]; rows are functions  *)
(*     from column name to cell;                                           *)
(*   - a cell is [v, na, rec]: the value, whether it is missing (NaN /     *)
(*     None), and the raw record the value was derived from.  rec is the   *)
(*     provenance of the value: every operation copies it from the cell    *)
(*     it reads;                                                           *)
(*   - a standardised value (x - mean) / std is kept exactly, as the       *)
(*     pair num = n*x - sum, den2 = n*sumsq - sum^2 (value num/sqrt(den2), *)
(*     or 0 when the column is constant: StandardScaler's scale_ is then   *)
(*     1 and x - mean is 0).                                               *)
(***************************************************************************)
EXTENDS Integers, Sequences, FiniteSets, TLC

VARIABLES
    order,      \* one call of get_preprocess_feature_order: its argument and result
    feat,       \* one call of preprocess_feature, then one replay of its transform
    tens,       \* one call of data_to_pytorch: its argument, its locals, its result
    \* one call of preprocess_data:
    raw_data,       \* the raw batch: rows [index, rec, context, decision, metrics]
    params,         \* [features, reward_function, product_sets]
    shuffle_data,   \* the shuffle_data argument
    pc,             \* the statement preprocess_data is at
    exc,            \* the exception that ended the call, "none" otherwise
    X,              \* the frame X: [columns, rows]
    y,              \* the metrics frame y: [columns, rows]
    enc,            \* the locals of the two encoding loops
    fitted,         \* history: every (registry key, fitted transform) so far
    ret             \* the value returned to the caller

prepVars == <<raw_data, params, shuffle_data, pc, exc, X, y, enc, fitted, ret>>
vars == <<order, feat, tens, prepVars>>

(***************************************************************************)
(* Bounds of the model.                                                    *)
(***************************************************************************)
MaxFeatures == 3
MaxRows == 2
MaxIdFeatures == 2
MaxListLen == 2

(***************************************************************************)
(* Strings.  Python compares str values code point by code point;          *)
(* list.sort() (lines 94-96) uses that order.                              *)
(***************************************************************************)
Codepoints(s) ==
    CASE s = "country"  -> <<99, 111, 117, 110, 116, 114, 121>>
      [] s = "decision" -> <<100, 101, 99, 105, 115, 105, 111, 110>>
      [] s = "year"     -> <<121, 101, 97, 114>>
      [] s = "yearly"   -> <<121, 101, 97, 114, 108, 121>>
      [] s = "Zip"      -> <<90, 105, 112>>
      [] s = "device"   -> <<100, 101, 118, 105, 99, 101>>
      [] s = "reward"   -> <<114, 101, 119, 97, 114, 100>>
      [] s = "region"   -> <<114, 101, 103, 105, 111, 110>>
      [] s = "avg_shoe_size_m" ->
            <<97, 118, 103, 95, 115, 104, 111, 101, 95, 115, 105, 122, 101, 95, 109>>

\* a < b for two str values
StrLess(a, b) ==
    LET ca == Codepoints(a)
        cb == Codepoints(b)
    IN  \E k \in 1..(Len(ca) + 1) :
            /\ k <= Len(cb)
            /\ \A j \in 1..(k - 1) : ca[j] = cb[j]
            /\ (k = Len(ca) + 1 \/ ca[k] < cb[k])

Range(s) == {s[i] : i \in 1..Len(s)}

RECURSIVE InsertSorted(_, _)
InsertSorted(sorted, x) ==
    IF sorted = <<>> THEN <<x>>
    ELSE IF StrLess(x, Head(sorted)) THEN <<x>> \o sorted
    ELSE <<Head(sorted)>> \o InsertSorted(Tail(sorted), x)

RECURSIVE SortFrom(_, _)
SortFrom(names, acc) ==
    IF names = <<>> THEN acc
    ELSE SortFrom(Tail(names), InsertSorted(acc, Head(names)))

\* the sort left out: the list stays in insertion order
sort_skipped(names) == names

\* list.sort() on a list of str (N.sort(), C.sort(), P.sort())
sort(names) == SortFrom(names, <<>>)

(***************************************************************************)
(* get_preprocess_feature_order (lines 74-100).  features_spec is the      *)
(* dict in insertion order: a sequence of entries [name, type, ...] with   *)
(* distinct names.  The loop raises at the first entry with another type.  *)
(***************************************************************************)
SupportedTypes == {"N", "C", "P"}

RECURSIVE NamesOfType(_, _)
NamesOfType(features_spec, t) ==
    IF features_spec = <<>> THEN <<>>
    ELSE (IF Head(features_spec).type = t THEN <<Head(features_spec).name>> ELSE <<>>)
         \o NamesOfType(Tail(features_spec), t)

get_preprocess_feature_order(features_spec) ==
    IF \E i \in 1..Len(features_spec) : features_spec[i].type \notin SupportedTypes
    THEN [exc |-> "Exception: Feature type not supported",
          float_feature_order |-> <<>>, id_feature_order |-> <<>>]
    ELSE [exc |-> "none",
          float_feature_order |-> sort(NamesOfType(features_spec, "N"))
                                  \o sort(NamesOfType(features_spec, "C")),
          id_feature_order |-> sort(NamesOfType(features_spec, "P"))]

(***************************************************************************)
(* Cells and arrays.                                                       *)
(***************************************************************************)
Cell(v, rec) == [v |-> v, na |-> FALSE, rec |-> rec]
NaCell(rec) == [v |-> 0, na |-> TRUE, rec |-> rec]

RECURSIVE SumOf(_)
SumOf(xs) == IF xs = <<>> THEN 0 ELSE Head(xs) + SumOf(Tail(xs))

Vals(cells) == [i \in 1..Len(cells) |-> cells[i].v]
Squares(xs) == [i \in 1..Len(xs) |-> xs[i] * xs[i]]

Min(S) == CHOOSE x \in S : \A z \in S : x <= z

\* np.unique / sorted(): the distinct values of a column in ascending order
RECURSIVE SortedInts(_)
SortedInts(S) == IF S = {} THEN <<>> ELSE <<Min(S)>> \o SortedInts(S \ {Min(S)})

\* ndarray.squeeze() on an (n, k) array: the axes of length 1 are removed
SqueezedShape(n, k) == SelectSeq(<<n, k>>, LAMBDA d : d # 1)

\* pd.DataFrame(values.squeeze(), columns=columns), values an (n, k) block
\* given as n rows of k cells (lines 117 and 124).  A 0-d array is refused
\* ("Must pass 2-d input"); a 1-d array becomes one column; the number of
\* columns must match the names.
DataFrame(block, k, columns) ==
    LET n == Len(block)
        shape == SqueezedShape(n, k)
    IN  IF Len(shape) = 0
        THEN [exc |-> "ValueError: Must pass 2-d input", columns |-> <<>>, rows |-> <<>>]
        ELSE IF Len(shape) = 1 /\ Len(columns) # 1
        THEN [exc |-> "ValueError: Shape of passed values", columns |-> <<>>, rows |-> <<>>]
        ELSE [exc |-> "none", columns |-> columns, rows |-> block]

(***************************************************************************)
(* sklearn.preprocessing.StandardScaler() (line 115).                      *)
(***************************************************************************)
StandardScalerFit(xs) ==
    [kind |-> "StandardScaler", n |-> Len(xs), sum |-> SumOf(xs),
     sumsq |-> SumOf(Squares(xs))]

StandardScalerTransform(p, x) ==
    [num |-> p.n * x - p.sum, den2 |-> p.n * p.sumsq - p.sum * p.sum, n |-> p.n]

(***************************************************************************)
(* sklearn.preprocessing.OneHotEncoder(sparse=False) (line 119).  The      *)
(* constructor is given no handle_unknown, so the encoder keeps sklearn's  *)
(* default, handle_unknown='error': transform raises ValueError on a       *)
(* category that was not seen by fit.                                      *)
(***************************************************************************)
OneHotEncoderFit(feature_name, xs) ==
    LET cats == SortedInts(Range(xs))
    IN  [kind |-> "OneHotEncoder", categories_ |-> cats,
         col_names |-> [i \in 1..Len(cats) |-> <<feature_name, cats[i]>>]]

OneHotEncoderTransform(p, x) ==
    IF x \notin Range(p.categories_)
    THEN [exc |-> "ValueError: Found unknown categories", row |-> <<>>]
    ELSE [exc |-> "none",
          row |-> [i \in 1..Len(p.categories_) |-> IF p.categories_[i] = x THEN 1 ELSE 0]]

(***************************************************************************)
(* preprocess_feature (lines 103-128).  values is the column, a sequence   *)
(* of cells.  Returns [exc, df, preprocessor]; df is [columns, rows], a    *)
(* column name being <<feature>> or <<feature, category>> (the string      *)
(* feature + "_" + str(category)).                                         *)
(***************************************************************************)
NoFrame == [columns |-> <<>>, rows |-> <<>>]
NoPreprocessor == [kind |-> "none"]

Raised(e) == [exc |-> e, df |-> NoFrame, preprocessor |-> NoPreprocessor]

preprocess_feature(feature_name, feature_type, values) ==
    LET n == Len(values)
        xs == Vals(values)
    IN  IF feature_type \notin {"N", "C"} THEN Raised("AssertionError")
        \* fit_transform's input check: "Found array with 0 sample(s)"
        ELSE IF n = 0 THEN Raised("ValueError: Found array with 0 sample(s)")
        ELSE IF feature_type = "N"
        THEN LET p == StandardScalerFit(xs)
                 block == [i \in 1..n |->
                             <<Cell(StandardScalerTransform(p, xs[i]), values[i].rec)>>]
                 df == DataFrame(block, 1, <<(<<feature_name>>)>>)
             IN  IF df.exc # "none" THEN Raised(df.exc)
                 ELSE [exc |-> "none", df |-> [columns |-> df.columns, rows |-> df.rows],
                       preprocessor |-> p]
        ELSE LET p == OneHotEncoderFit(feature_name, xs)
                 k == Len(p.categories_)
                 block == [i \in 1..n |->
                             LET r == OneHotEncoderTransform(p, xs[i]).row
                             IN  [j \in 1..k |-> Cell(r[j], values[i].rec)]]
                 df == DataFrame(block, k, p.col_names)
             IN  IF df.exc # "none" THEN Raised(df.exc)
                 ELSE [exc |-> "none", df |-> [columns |-> df.columns, rows |-> df.rows],
                       preprocessor |-> p]

\* the fitted transform applied to one new raw value (the replay the
\* transform registry is kept for)
replay(preprocessor, x) ==
    IF preprocessor.kind = "OneHotEncoder" THEN OneHotEncoderTransform(preprocessor, x)
    ELSE [exc |-> "none", row |-> <<StandardScalerTransform(preprocessor, x)>>]

(***************************************************************************)
(* Calls of get_preprocess_feature_order on every feature spec of up to    *)
(* MaxFeatures entries, in every insertion order.                          *)
(***************************************************************************)
OrderNames == {"country", "decision", "year", "yearly", "Zip"}
OrderTypes == {"N", "C", "P", "T"}

SeqsUpTo(S, n) == UNION {[1..m -> S] : m \in 0..n}

FeatureSpecs ==
    {fs \in SeqsUpTo([name : OrderNames, type : OrderTypes], MaxFeatures) :
        \A i, j \in 1..Len(fs) : i # j => fs[i].name # fs[j].name}

FeatIdle == [pc |-> "idle"]
TensIdle == [pc |-> "idle"]
PrepIdle ==
    /\ raw_data = <<>>
    /\ params = [pc |-> "idle"]
    /\ shuffle_data = FALSE
    /\ pc = "idle"
    /\ exc = "none"
    /\ X = [pc |-> "idle"]
    /\ y = [pc |-> "idle"]
    /\ enc = [pc |-> "idle"]
    /\ fitted = <<>>
    /\ ret = [pc |-> "idle"]
OrderIdle == [pc |-> "idle"]

OrderInit ==
    /\ order \in [pc : {"call"}, features_spec : FeatureSpecs, ret : {OrderIdle}]
    /\ feat = FeatIdle
    /\ tens = TensIdle
    /\ PrepIdle

OrderCall ==
    /\ order.pc = "call"
    /\ order' = [order EXCEPT !.pc = "returned",
                              !.ret = get_preprocess_feature_order(order.features_spec)]
    /\ UNCHANGED <<feat, tens, prepVars>>

OrderNext == OrderCall

SpecOrder == OrderInit /\ [][OrderNext]_vars

(***************************************************************************)
(* C1.  For every feature spec whose kinds are all N, C or P the resolver  *)
(* returns the Numeric names in ascending order followed by the            *)
(* Categorical names in ascending order, and the Identifier names in       *)
(* ascending order; every declared feature appears exactly once; and the   *)
(* result is the same for every insertion order of the same mapping (the   *)
(* function takes no raw batch, so it cannot depend on one).               *)
(***************************************************************************)
NamesIn(features_spec, t) ==
    {features_spec[i].name : i \in {j \in 1..Len(features_spec) : features_spec[j].type = t}}

\* the one strictly ascending enumeration of a set of names
AscendingNames(S) ==
    CHOOSE s \in [1..Cardinality(S) -> S] :
        /\ Range(s) = S
        /\ \A i, j \in 1..Cardinality(S) : i < j => StrLess(s[i], s[j])

InsertionOrders(features_spec) ==
    LET n == Len(features_spec)
    IN  {[i \in 1..n |-> features_spec[p[i]]] :
            p \in {q \in [1..n -> 1..n] : \A i, j \in 1..n : i # j => q[i] # q[j]}}

AllSupported(features_spec) ==
    \A i \in 1..Len(features_spec) : features_spec[i].type \in SupportedTypes

C1_OrderSortedAndInsertionIndependent ==
    (order.pc = "returned" /\ AllSupported(order.features_spec)) =>
        LET fs == order.features_spec
            res == order.ret
            all == res.float_feature_order \o res.id_feature_order
        IN  /\ res.exc = "none"
            /\ res.float_feature_order =
                 AscendingNames(NamesIn(fs, "N")) \o AscendingNames(NamesIn(fs, "C"))
            /\ res.id_feature_order = AscendingNames(NamesIn(fs, "P"))
            /\ Len(all) = Len(fs)
            /\ Range(all) = {fs[i].name : i \in 1..Len(fs)}
            /\ \A other \in InsertionOrders(fs) :
                 get_preprocess_feature_order(other) = res

\* a spec declared out of order, with all three kinds, resolved
C1_Witness ==
    /\ order.pc = "returned"
    /\ order.ret.exc = "none"
    /\ Len(order.features_spec) = MaxFeatures
    /\ \A t \in SupportedTypes : NamesIn(order.features_spec, t) # {}
    /\ order.features_spec[1].name = "year"
    /\ order.features_spec[1].type = "C"
    /\ order.features_spec[2].type = "N"
    /\ order.ret.float_feature_order[1] = order.features_spec[2].name

(***************************************************************************)
(* Calls of preprocess_feature on every column of up to MaxRows raw values *)
(* and, when the call returned, one replay of the fitted transform on a    *)
(* new raw value.                                                          *)
(***************************************************************************)
FeatureValues == {1, 2, 3}
ReplayValues == FeatureValues \cup {4}

Column(xs) == [i \in 1..Len(xs) |-> Cell(xs[i], i)]

FeatInit ==
    /\ order = OrderIdle
    /\ tens = TensIdle
    /\ PrepIdle
    /\ \E name \in {"country", "year"}, type \in {"N", "C", "P"},
          xs \in SeqsUpTo(FeatureValues, MaxRows) :
            feat = [pc |-> "call", feature_name |-> name, feature_type |-> type,
                    values |-> Column(xs), ret |-> Raised("none"),
                    replay_value |-> 0, replay_ret |-> [exc |-> "none", row |-> <<>>]]

FeatFit ==
    /\ feat.pc = "call"
    /\ feat' = [feat EXCEPT
                  !.pc = "fitted",
                  !.ret = preprocess_feature(feat.feature_name, feat.feature_type,
                                             feat.values)]
    /\ UNCHANGED <<order, tens, prepVars>>

FeatReplay ==
    /\ feat.pc = "fitted"
    /\ feat.ret.exc = "none"
    /\ \E x \in ReplayValues :
         feat' = [feat EXCEPT !.pc = "replayed", !.replay_value = x,
                              !.replay_ret = replay(feat.ret.preprocessor, x)]
    /\ UNCHANGED <<order, tens, prepVars>>

FeatNext == FeatFit \/ FeatReplay

SpecFeature == FeatInit /\ [][FeatNext]_vars

(***************************************************************************)
(* C10.  For a feature of kind N or C and a column of n >= 1 raw values    *)
(* (n = 1 included) preprocess_feature returns, without raising, a block   *)
(* of exactly n rows with one column per output name: the feature's name   *)
(* for N, '{feature}_{category}' per observed category in ascending        *)
(* (fitted) order for C.                                                   *)
(***************************************************************************)
C10_BlockHasOneRowPerInput ==
    (/\ feat.pc \in {"fitted", "replayed"}
     /\ feat.feature_type \in {"N", "C"}
     /\ Len(feat.values) >= 1) =>
        LET cats == SortedInts(Range(Vals(feat.values)))
            names == IF feat.feature_type = "N" THEN <<(<<feat.feature_name>>)>>
                     ELSE [i \in 1..Len(cats) |-> <<feat.feature_name, cats[i]>>]
        IN  /\ feat.ret.exc = "none"
            /\ feat.ret.df.columns = names
            /\ Len(feat.ret.df.rows) = Len(feat.values)
            /\ \A i \in 1..Len(feat.ret.df.rows) :
                 Len(feat.ret.df.rows[i]) = Len(names)

(***************************************************************************)
(* C6.  A Categorical transform fitted on a column whose observed          *)
(* categories are S, replayed on a value outside S, yields an all-zero     *)
(* row and does not raise; replayed on a value of S it yields the row      *)
(* with a single 1 in that category's column (fitted category order).      *)
(***************************************************************************)
C6_UnseenCategoryIsAllZero ==
    (feat.pc = "replayed" /\ feat.feature_type = "C") =>
        LET cats == SortedInts(Range(Vals(feat.values)))
        IN  /\ feat.replay_ret.exc = "none"
            /\ feat.replay_ret.row =
                 [i \in 1..Len(cats) |-> IF cats[i] = feat.replay_value THEN 1 ELSE 0]

(***************************************************************************)
(* data_to_pytorch, the identifier part (lines 250-277).  X_id_list is the *)
(* frame data["X_id_list"]: a sequence of columns, each [dtype, values];   *)
(* an int column holds bare identifiers, an object column holds lists.     *)
(***************************************************************************)
MaxOf(S) == CHOOSE x \in S : \A z \in S : z <= x

\* series.apply(lambda x: [x]) when series.dtype == int (lines 259-260)
wrap(column) ==
    IF column.dtype = "int" THEN [i \in 1..Len(column.values) |-> <<column.values[i]>>]
    ELSE column.values

\* pad_sequence(pre_pad, batch_first=True, padding_value=0) (line 263):
\* every list is filled with trailing 0 up to the longest one
pad_sequence(lists) ==
    LET w == MaxOf({Len(lists[i]) : i \in 1..Len(lists)})
    IN  [i \in 1..Len(lists) |->
            [j \in 1..w |-> IF j <= Len(lists[i]) THEN lists[i][j] ELSE 0]]

\* the span written without the running offset
pad_idxs_from_zero(pad_idx, idx_offset) == <<pad_idx, idx_offset>>

\* [pad_idx, pad_idx + idx_offset] (line 265)
pad_idxs(pad_idx, idx_offset) == <<pad_idx, pad_idx + idx_offset>>

\* torch.cat((X_id_list, post_pad), dim=1), or post_pad for the first block
\* (lines 268-271)
cat(X_id_list, post_pad) ==
    IF X_id_list = <<>> THEN post_pad
    ELSE [i \in 1..Len(post_pad) |-> X_id_list[i] \o post_pad[i]]

IdValues == {7}
IdLists == SeqsUpTo(IdValues, MaxListLen)

IdColumns(n) ==
    [dtype : {"int"}, values : [1..n -> IdValues]]
        \cup [dtype : {"object"}, values : [1..n -> IdLists]]

TensInit ==
    /\ order = OrderIdle
    /\ feat = FeatIdle
    /\ PrepIdle
    /\ \E n \in 1..MaxRows : \E k \in 1..MaxIdFeatures :
       \E columns \in [1..k -> IdColumns(n)] :
            tens = [pc |-> "loop", X_id_list_df |-> columns, done |-> 0,
                    id_list_pad_idxs |-> <<>>, pad_idx |-> 0, X_id_list |-> <<>>,
                    X |-> [X_id_list |-> <<>>, X_id_list_idxs |-> <<>>]]

\* one pass of the loop over data["X_id_list"] (lines 257-271)
TensColumn ==
    /\ tens.pc = "loop"
    /\ tens.done < Len(tens.X_id_list_df)
    /\ LET series == wrap(tens.X_id_list_df[tens.done + 1])
           post_pad == pad_sequence(series)
           idx_offset == Len(post_pad[1])
       IN  tens' = [tens EXCEPT
                      !.done = tens.done + 1,
                      !.id_list_pad_idxs = @ \o pad_idxs(tens.pad_idx, idx_offset),
                      !.pad_idx = @ + idx_offset,
                      !.X_id_list = cat(@, post_pad)]
    /\ UNCHANGED <<order, feat, prepVars>>

\* after the loop (lines 275-277): the offsets are repeated once per row
TensReturn ==
    /\ tens.pc = "loop"
    /\ tens.done = Len(tens.X_id_list_df)
    /\ tens' = [tens EXCEPT
                  !.pc = "returned",
                  !.X = [X_id_list |-> tens.X_id_list,
                         X_id_list_idxs |-> [i \in 1..Len(tens.X_id_list) |->
                                               tens.id_list_pad_idxs]]]
    /\ UNCHANGED <<order, feat, prepVars>>

TensNext == TensColumn \/ TensReturn

SpecTensor == TensInit /\ [][TensNext]_vars

(***************************************************************************)
(* C3.  With k >= 1 identifier features, feature i having batch-wide       *)
(* maximum list length w_i, the offset table holds for feature i the span  *)
(* [w_1+...+w_(i-1), w_1+...+w_i), in the order the padded blocks were     *)
(* concatenated: the first span starts at 0, each span starts where the    *)
(* previous one ends, spans are pairwise disjoint, and the last span ends  *)
(* at the column width of the identifier tensor.  The columns of a span    *)
(* hold the feature's lists, padded with trailing 0.                       *)
(***************************************************************************)
Width(column) ==
    IF column.dtype = "int" THEN 1
    ELSE MaxOf({Len(column.values[r]) : r \in 1..Len(column.values)})

RECURSIVE WidthsBefore(_, _)
WidthsBefore(columns, i) ==
    IF i = 0 THEN 0 ELSE Width(columns[i]) + WidthsBefore(columns, i - 1)

SpanStart(idxs, i) == idxs[2 * i - 1]
SpanEnd(idxs, i) == idxs[2 * i]

C3_OffsetsPartitionTheTensor ==
    tens.pc = "returned" =>
        LET columns == tens.X_id_list_df
            k == Len(columns)
            n == Len(columns[1].values)
        IN  /\ Len(tens.X.X_id_list) = n
            /\ Len(tens.X.X_id_list_idxs) = n
            /\ \A r \in 1..n :
                 LET idxs == tens.X.X_id_list_idxs[r]
                     row == tens.X.X_id_list[r]
                 IN  /\ Len(idxs) = 2 * k
                     /\ SpanStart(idxs, 1) = 0
                     /\ SpanEnd(idxs, k) = Len(row)
                     /\ \A i \in 1..k :
                          /\ SpanStart(idxs, i) = WidthsBefore(columns, i - 1)
                          /\ SpanEnd(idxs, i) = WidthsBefore(columns, i)
                          /\ i < k => SpanEnd(idxs, i) = SpanStart(idxs, i + 1)
                          /\ \A j \in 1..k :
                               i < j => SpanEnd(idxs, i) <= SpanStart(idxs, j)
                          /\ LET own == IF columns[i].dtype = "int"
                                        THEN <<columns[i].values[r]>>
                                        ELSE columns[i].values[r]
                             IN  \A c \in 1..Width(columns[i]) :
                                   row[SpanStart(idxs, i) + c] =
                                     IF c <= Len(own) THEN own[c] ELSE 0

\* two features of different widths, the first one padded in some row
C3_Witness ==
    /\ tens.pc = "returned"
    /\ Len(tens.X_id_list_df) = MaxIdFeatures
    /\ Len(tens.X.X_id_list) >= 2
    /\ tens.X.X_id_list_idxs[1][2] >= 2
    /\ tens.X.X_id_list_idxs[1][4] > tens.X.X_id_list_idxs[1][3]
    /\ tens.X.X_id_list_idxs[1][4] - tens.X.X_id_list_idxs[1][3]
         # tens.X.X_id_list_idxs[1][2]
    /\ \E r \in 1..Len(tens.X.X_id_list) : tens.X.X_id_list[r][2] = 0

(***************************************************************************)
(* preprocess_data (lines 131-217).                                        *)
(*                                                                         *)
(* The raw batch is a frame with columns context, decision, metrics and    *)
(* the default index 0..n-1.  A context or metrics blob is the function    *)
(* json.loads returns for it; an empty metrics string is the function on   *)
(* the empty domain.  decision is <<d>>, or <<>> for None.  rec names the  *)
(* raw record (its position in the batch as it was read).                  *)
(***************************************************************************)
RowOrders(n) ==
    {p \in [1..n -> 1..n] : \A i, j \in 1..n : i # j => p[i] # p[j]}

\* sklearn.utils.shuffle(raw_data) (line 137): the rows in the order p,
\* each row keeping its index label
shuffle(frame, p) == [i \in 1..Len(frame) |-> frame[p[i]]]

\* pd.json_normalize on a column of flat blobs (lines 141, 143): one row
\* per blob under a fresh index 0..n-1, one column per key met in any
\* blob, NaN where a blob lacks the key
json_normalize(series) ==
    LET cols == UNION {DOMAIN series[i].blob : i \in 1..Len(series)}
    IN  [columns |-> cols,
         rows |-> [i \in 1..Len(series) |->
                     [index |-> i - 1,
                      rec |-> series[i].rec,
                      cells |-> [c \in cols |->
                                   IF c \in DOMAIN series[i].blob
                                   THEN Cell(series[i].blob[c], series[i].rec)
                                   ELSE NaCell(series[i].rec)]]]]

\* X[name] = series (line 142): pandas aligns the series to X on the index
\* LABEL; a label of X the series lacks gets NaN
setitem_aligned(frame, name, series) ==
    [columns |-> frame.columns \cup {name},
     rows |-> [i \in 1..Len(frame.rows) |->
                 LET label == frame.rows[i].index
                     hits == {j \in 1..Len(series) : series[j].index = label}
                     cell == IF hits = {} THEN NaCell(frame.rows[i].rec)
                             ELSE series[CHOOSE j \in hits : TRUE].cell
                 IN  [frame.rows[i] EXCEPT
                        !.cells = [c \in frame.columns \cup {name} |->
                                     IF c = name THEN cell ELSE frame.rows[i].cells[c]]]]]

\* y.fillna(0) (line 146)
fillna(frame) ==
    [columns |-> frame.columns,
     rows |-> [i \in 1..Len(frame.rows) |->
                 [frame.rows[i] EXCEPT
                    !.cells = [c \in frame.columns |->
                                 IF frame.rows[i].cells[c].na
                                 THEN Cell(0, frame.rows[i].cells[c].rec)
                                 ELSE frame.rows[i].cells[c]]]]]

RECURSIVE WeightedSum(_, _, _)
WeightedSum(cols, cells, reward_function) ==
    IF cols = {} THEN 0
    ELSE LET m == CHOOSE c \in cols : TRUE
         IN  cells[m].v * reward_function[m]
               + WeightedSum(cols \ {m}, cells, reward_function)

\* lines 149-151: X["reward"] starts at 0 and, for every column of y, gains
\* series * params["reward_function"][metrics_name]; the subscript raises
\* KeyError for a column of y that reward_function does not name.  X and
\* y both carry the index 0..n-1, so the sum is row by row.
add_reward(frame, metrics, reward_function) ==
    IF \E m \in metrics.columns : m \notin DOMAIN reward_function
    THEN [exc |-> "KeyError: reward_function", frame |-> frame]
    ELSE [exc |-> "none",
          frame |->
            [columns |-> frame.columns \cup {"reward"},
             rows |-> [i \in 1..Len(frame.rows) |->
                         [frame.rows[i] EXCEPT
                            !.cells = [c \in frame.columns \cup {"reward"} |->
                                         IF c = "reward"
                                         THEN Cell(WeightedSum(metrics.columns,
                                                               metrics.rows[i].cells,
                                                               reward_function),
                                                   metrics.rows[i].rec)
                                         ELSE frame.rows[i].cells[c]]]]]]

\* no row dropped
dropna_kept_all(frame) == frame

\* X.dropna(inplace=True) (line 155): a row goes when ANY of its columns is
\* missing; the rows that stay keep their index labels
dropna(frame) ==
    [columns |-> frame.columns,
     rows |-> SelectSeq(frame.rows,
                        LAMBDA row : \A c \in frame.columns : ~row.cells[c].na)]

\* X[name].values
values_of(frame, name) == [i \in 1..Len(frame.rows) |-> frame.rows[i].cells[name]]

\* pd.concat([float_feature_df, df], axis=1) (lines 175, 195): both frames
\* carry the index 0..m-1; the first one starts as the empty DataFrame
concat(float_feature_df, df) ==
    IF float_feature_df.columns = <<>> THEN df
    ELSE [columns |-> float_feature_df.columns \o df.columns,
          rows |-> [i \in 1..Len(df.rows) |-> float_feature_df.rows[i] \o df.rows[i]]]

\* d[k] = v on a dict
setitem(d, k, v) == [x \in DOMAIN d \cup {k} |-> IF x = k THEN v ELSE d[x]]

MetaOf(features, feature_name) ==
    features[CHOOSE i \in 1..Len(features) : features[i].name = feature_name]

\* lines 171-176 and 191-196: encode one column, append its frame, and put
\* its fitted transform in the registry under key
encode_column(w, key, feature_name, feature_type, values) ==
    LET r == preprocess_feature(feature_name, feature_type, values)
    IN  IF r.exc # "none" THEN [w EXCEPT !.exc = r.exc]
        ELSE [w EXCEPT
                !.enc.final_float_feature_order = @ \o r.df.columns,
                !.enc.float_feature_df = concat(@, r.df),
                !.enc.transforms = setitem(@, key, r.preprocessor),
                !.fitted = Append(@, [key |-> key, name |-> feature_name,
                                      preprocessor |-> r.preprocessor])]

\* an identifier the table lacks gets a row of zeros
dense_rows_zero_filled(product_set_meta, values) ==
    [exc |-> "none",
     rows |-> [i \in 1..Len(values) |->
                 IF values[i].v \in DOMAIN product_set_meta.dense
                 THEN [j \in 1..Len(product_set_meta.dense[values[i].v]) |->
                         Cell(product_set_meta.dense[values[i].v][j], values[i].rec)]
                 ELSE [j \in 1..Len(product_set_meta.features) |->
                         Cell(0, values[i].rec)]]]

\* [product_set_meta["dense"][i] for i in X[feature_name].values]
\* (lines 186-188): the subscript raises KeyError for an identifier that
\* is no key of the dense table
dense_rows(product_set_meta, values) ==
    IF \E i \in 1..Len(values) : values[i].v \notin DOMAIN product_set_meta.dense
    THEN [exc |-> "KeyError: dense", rows |-> <<>>]
    ELSE [exc |-> "none",
          rows |-> [i \in 1..Len(values) |->
                      [j \in 1..Len(product_set_meta.dense[values[i].v]) |->
                         Cell(product_set_meta.dense[values[i].v][j], values[i].rec)]]]

\* the loop over product_set_meta["features"] (lines 189-196); every pass
\* stores its transform under the SAME key, the identifier feature's name
RECURSIVE encode_attributes(_, _, _, _, _)
encode_attributes(w, key, features, dense, idx) ==
    IF idx > Len(features) \/ w.exc # "none" THEN w
    \* dense is a 1-d empty array when no row is left: dense[:, idx] fails
    ELSE IF dense = <<>> THEN [w EXCEPT !.exc = "IndexError: too many indices"]
    ELSE encode_attributes(
            encode_column(w, key, features[idx].name, features[idx].type,
                          [i \in 1..Len(dense) |-> dense[i][idx]]),
            key, features, dense, idx + 1)

\* one pass of the loop over float_feature_order (lines 169-176)
encode_float_feature(w, frame, features, feature_name) ==
    IF feature_name \notin frame.columns THEN [w EXCEPT !.exc = "KeyError: column"]
    ELSE encode_column(w, feature_name, feature_name,
                       MetaOf(features, feature_name).type,
                       values_of(frame, feature_name))

\* one pass of the loop over id_feature_order (lines 178-206)
encode_id_feature(w, frame, prm, feature_name) ==
    LET meta == MetaOf(prm.features, feature_name)
    IN  IF meta.product_set_id \notin DOMAIN prm.product_sets
        THEN [w EXCEPT !.exc = "KeyError: product_sets"]
        ELSE LET product_set_meta == prm.product_sets[meta.product_set_id]
             IN  IF feature_name \notin frame.columns
                 THEN [w EXCEPT !.exc = "KeyError: column"]
                 ELSE IF meta.use_dense /\ "dense" \in DOMAIN product_set_meta
                 THEN LET d == dense_rows(product_set_meta,
                                          values_of(frame, feature_name))
                      IN  IF d.exc # "none" THEN [w EXCEPT !.exc = d.exc]
                          ELSE encode_attributes(w, feature_name,
                                                 product_set_meta.features, d.rows, 1)
                 ELSE [w EXCEPT
                         !.enc.final_id_feature_order = Append(@, feature_name),
                         !.enc.id_list_feature_df =
                            [columns |-> Append(@.columns, feature_name),
                             rows |-> [i \in 1..Len(frame.rows) |->
                                         (IF @.columns = <<>> THEN <<>> ELSE @.rows[i])
                                           \o <<frame.rows[i].cells[feature_name]>>]],
                         !.enc.transforms =
                            setitem(@, feature_name,
                                    [kind |-> "product_set_id",
                                     product_set_id |-> meta.product_set_id])]

(***************************************************************************)
(* The batches and parameters preprocess_data is run on.  The feature      *)
(* specs are those of get_experiment_specific_params (lines 40-70) with    *)
(* country declared C, P with use_dense, or P without; the product set is  *)
(* the one of lines 56-69 cut to two items (avg_shoe_size_m in half        *)
(* sizes, to stay in the integers), beside one that has no dense table.    *)
(***************************************************************************)
LoggedRows ==
    { [context |-> ("country" :> 1 @@ "year" :> 5), decision |-> <<0>>,
       metrics |-> ("height" :> 10)],
      [context |-> ("country" :> 2 @@ "year" :> 7), decision |-> <<1>>,
       metrics |-> ("height" :> 4)],
      \* no metrics logged; an identifier the product set lacks
      [context |-> ("country" :> 3 @@ "year" :> 7), decision |-> <<1>>,
       metrics |-> <<>>],
      \* no year
      [context |-> ("country" :> 2), decision |-> <<0>>,
       metrics |-> ("height" :> 10)],
      \* a context key no feature declares
      [context |-> ("country" :> 1 @@ "year" :> 5 @@ "device" :> 1), decision |-> <<1>>,
       metrics |-> ("height" :> 10)],
      \* a second metric
      [context |-> ("country" :> 1 @@ "year" :> 7), decision |-> <<0>>,
       metrics |-> ("height" :> 10 @@ "clicks" :> 1)],
      \* no country
      [context |-> ("year" :> 5), decision |-> <<1>>,
       metrics |-> ("height" :> 4)],
      \* no decision
      [context |-> ("country" :> 2 @@ "year" :> 5), decision |-> <<>>,
       metrics |-> ("height" :> 10)] }

ProductSets ==
    "1" :> [dense |-> (1 :> <<0, 20>> @@ 2 :> <<1, 17>>),
            features |-> <<[name |-> "region", type |-> "C"],
                           [name |-> "avg_shoe_size_m", type |-> "N"]>>]
    \* a product set with no dense table
    @@ "2" :> [features |-> <<[name |-> "region", type |-> "C"]>>]

CountryOf(product_set_id, type, use_dense) ==
    [name |-> "country", type |-> type, product_set_id |-> product_set_id,
     use_dense |-> use_dense]
Country(type, use_dense) == CountryOf("1", type, use_dense)
Year(type) ==
    [name |-> "year", type |-> type, product_set_id |-> "None", use_dense |-> FALSE]
Decision ==
    [name |-> "decision", type |-> "C", product_set_id |-> "None", use_dense |-> FALSE]

FeatureSets ==
    { <<Country("C", FALSE), Year("N"), Decision>>,
      <<Country("P", TRUE), Year("N"), Decision>>,
      <<Country("P", FALSE), Year("N"), Decision>>,
      <<Country("P", TRUE)>>,
      <<Country("P", FALSE)>>,
      <<CountryOf("2", "P", TRUE)>>,
      <<Country("C", FALSE), Year("T"), Decision>> }

RewardFunctions == { "height" :> 1, ("height" :> 2 @@ "clicks" :> 1) }

NoResult == [returned |-> FALSE]

NoEnc ==
    [reward_df |-> <<>>,
     float_feature_order |-> <<>>, id_feature_order |-> <<>>,
     final_float_feature_order |-> <<>>, final_id_feature_order |-> <<>>,
     float_feature_df |-> NoFrame, id_list_feature_df |-> NoFrame,
     transforms |-> <<>>, float_done |-> 0, id_done |-> 0]

Unparsed == [columns |-> {}, rows |-> <<>>]

PrepInit ==
    /\ order = OrderIdle
    /\ feat = FeatIdle
    /\ tens = TensIdle
    /\ \E n \in 1..MaxRows : \E rows \in [1..n -> LoggedRows] :
         raw_data = [i \in 1..n |->
                       [index |-> i - 1, rec |-> i - 1, context |-> rows[i].context,
                        decision |-> rows[i].decision, metrics |-> rows[i].metrics]]
    /\ params \in [features : FeatureSets, reward_function : RewardFunctions,
                   product_sets : {ProductSets}]
    /\ shuffle_data \in BOOLEAN
    /\ pc = "shuffle"
    /\ exc = "none"
    /\ X = Unparsed
    /\ y = Unparsed
    /\ enc = NoEnc
    /\ fitted = <<>>
    /\ ret = NoResult

Others == <<order, feat, tens>>

\* lines 136-137
PrepShuffle ==
    /\ pc = "shuffle"
    /\ IF shuffle_data
       THEN \E p \in RowOrders(Len(raw_data)) : raw_data' = shuffle(raw_data, p)
       ELSE raw_data' = raw_data
    /\ pc' = "normalize"
    /\ UNCHANGED <<Others, params, shuffle_data, exc, X, y, enc, fitted, ret>>

\* lines 141-146
PrepNormalize ==
    /\ pc = "normalize"
    /\ X' = setitem_aligned(
              json_normalize([i \in 1..Len(raw_data) |->
                                [blob |-> raw_data[i].context, rec |-> raw_data[i].rec]]),
              "decision",
              [i \in 1..Len(raw_data) |->
                 [index |-> raw_data[i].index,
                  cell |-> IF raw_data[i].decision = <<>> THEN NaCell(raw_data[i].rec)
                           ELSE Cell(raw_data[i].decision[1], raw_data[i].rec)]])
    /\ y' = fillna(json_normalize([i \in 1..Len(raw_data) |->
                                     [blob |-> raw_data[i].metrics,
                                      rec |-> raw_data[i].rec]]))
    /\ pc' = "reward"
    /\ UNCHANGED <<Others, raw_data, params, shuffle_data, exc, enc, fitted, ret>>

\* lines 149-151
PrepReward ==
    /\ pc = "reward"
    /\ LET r == add_reward(X, y, params.reward_function)
       IN  /\ X' = r.frame
           /\ exc' = r.exc
           /\ pc' = IF r.exc = "none" THEN "dropna" ELSE "raised"
    /\ UNCHANGED <<Others, raw_data, params, shuffle_data, y, enc, fitted, ret>>

\* lines 155-159
PrepDropna ==
    /\ pc = "dropna"
    /\ X' = dropna(X)
    /\ enc' = [enc EXCEPT !.reward_df = values_of(dropna(X), "reward")]
    /\ pc' = "order"
    /\ UNCHANGED <<Others, raw_data, params, shuffle_data, exc, y, fitted, ret>>

\* lines 162-168
PrepOrder ==
    /\ pc = "order"
    /\ LET r == get_preprocess_feature_order(params.features)
       IN  /\ exc' = r.exc
           /\ pc' = IF r.exc = "none" THEN "encode" ELSE "raised"
           /\ enc' = [enc EXCEPT !.float_feature_order = r.float_feature_order,
                                 !.id_feature_order = r.id_feature_order]
    /\ UNCHANGED <<Others, raw_data, params, shuffle_data, X, y, fitted, ret>>

\* one pass of the loop of lines 169-176
PrepFloatFeature ==
    /\ pc = "encode"
    /\ enc.float_done < Len(enc.float_feature_order)
    /\ LET w == encode_float_feature([exc |-> "none", enc |-> enc, fitted |-> fitted],
                                     X, params.features,
                                     enc.float_feature_order[enc.float_done + 1])
       IN  /\ exc' = w.exc
           /\ pc' = IF w.exc = "none" THEN "encode" ELSE "raised"
           /\ enc' = [w.enc EXCEPT !.float_done = @ + 1]
           /\ fitted' = w.fitted
    /\ UNCHANGED <<Others, raw_data, params, shuffle_data, X, y, ret>>

\* one pass of the loop of lines 178-206
PrepIdFeature ==
    /\ pc = "encode"
    /\ enc.float_done = Len(enc.float_feature_order)
    /\ enc.id_done < Len(enc.id_feature_order)
    /\ LET w == encode_id_feature([exc |-> "none", enc |-> enc, fitted |-> fitted],
                                  X, params, enc.id_feature_order[enc.id_done + 1])
       IN  /\ exc' = w.exc
           /\ pc' = IF w.exc = "none" THEN "encode" ELSE "raised"
           /\ enc' = [w.enc EXCEPT !.id_done = @ + 1]
           /\ fitted' = w.fitted
    /\ UNCHANGED <<Others, raw_data, params, shuffle_data, X, y, ret>>

\* lines 208-217
PrepReturn ==
    /\ pc = "encode"
    /\ enc.float_done = Len(enc.float_feature_order)
    /\ enc.id_done = Len(enc.id_feature_order)
    /\ ret' = [returned |-> TRUE,
               y |-> enc.reward_df,
               X_float |-> enc.float_feature_df,
               X_id_list |-> enc.id_list_feature_df,
               transforms |-> enc.transforms,
               float_feature_order |-> enc.float_feature_order,
               id_feature_order |-> enc.id_feature_order,
               final_float_feature_order |-> enc.final_float_feature_order,
               final_id_feature_order |-> enc.final_id_feature_order]
    /\ pc' = "done"
    /\ UNCHANGED <<Others, raw_data, params, shuffle_data, exc, X, y, enc, fitted>>

Next ==
    \/ PrepShuffle
    \/ PrepNormalize
    \/ PrepReward
    \/ PrepDropna
    \/ PrepOrder
    \/ PrepFloatFeature
    \/ PrepIdFeature
    \/ PrepReturn

Spec == PrepInit /\ [][Next]_vars

(***************************************************************************)
(* What the properties of preprocess_data read.                             *)
(***************************************************************************)
Raw(r) == raw_data[CHOOSE i \in 1..Len(raw_data) : raw_data[i].rec = r]

\* the statements after X.dropna (line 155) have run, or the call was
\* ended by an exception raised after it
AfterDropna ==
    \/ pc \in {"order", "encode", "done"}
    \/ pc = "raised" /\ exc # "KeyError: reward_function"

Recs(rows) == [i \in 1..Len(rows) |-> rows[i].rec]

(***************************************************************************)
(* C2.  After preprocess_data, with shuffle_data true or false, row i of   *)
(* y, row i of X_float and row i of every column of X_id_list are derived  *)
(* from the same raw record: every value in row i is the value that the    *)
(* record of y[i] yields in that column (in particular the decision).      *)
(***************************************************************************)
\* the value at (i, c) is the one record r yields in column c
FromRecord(frame, i, c, r) ==
    \E j \in 1..Len(frame.rows) :
        /\ frame.rows[j][c].rec = r
        /\ frame.rows[j][c].v = frame.rows[i][c].v

RowsAligned(frame, targets) ==
    frame.columns # <<>> =>
        /\ Len(frame.rows) = Len(targets)
        /\ \A i \in 1..Len(targets) : \A c \in 1..Len(frame.columns) :
             FromRecord(frame, i, c, targets[i].rec)

C2_RowsComeFromOneRecord ==
    ret.returned =>
        /\ RowsAligned(ret.X_float, ret.y)
        /\ RowsAligned(ret.X_id_list, ret.y)

(***************************************************************************)
(* C4.  For every batch and reward_function, the reward of a row is the    *)
(* sum over the metric names m that reward_function declares of            *)
(* weight_m * metric_m, metric_m being 0 when the row's blob is empty or   *)
(* lacks m; and the computation never fails because of the metric names a  *)
(* blob holds.                                                             *)
(***************************************************************************)
RECURSIVE DeclaredSum(_, _, _)
DeclaredSum(names, metrics, reward_function) ==
    IF names = {} THEN 0
    ELSE LET m == CHOOSE n \in names : TRUE
         IN  reward_function[m] * (IF m \in DOMAIN metrics THEN metrics[m] ELSE 0)
               + DeclaredSum(names \ {m}, metrics, reward_function)

C4_RewardIsDeclaredWeightedSum ==
    /\ exc # "KeyError: reward_function"
    /\ "reward" \in X.columns =>
         \A i \in 1..Len(X.rows) :
            /\ ~X.rows[i].cells["reward"].na
            /\ X.rows[i].cells["reward"].v =
                 DeclaredSum(DOMAIN params.reward_function,
                             Raw(X.rows[i].rec).metrics, params.reward_function)

(***************************************************************************)
(* C7.  When the feature spec declares a kind outside {N, C, P},           *)
(* preprocess_data returns no dataset and the failure is raised before     *)
(* any raw row is processed: nothing is parsed, no reward computed, no row *)
(* excluded and no transform fitted before the kind check.                 *)
(***************************************************************************)
C7_KindCheckedBeforeAnyRow ==
    ~AllSupported(params.features) =>
        /\ pc # "done"
        /\ ret = NoResult
        /\ X = Unparsed
        /\ y = Unparsed
        /\ fitted = <<>>

(***************************************************************************)
(* C9.  After a successful preprocess_data the registry has exactly one    *)
(* key per feature of float_feature_order and id_feature_order, and every  *)
(* fitted transform that produced columns of final_float_feature_order is  *)
(* the registry's entry for its feature: for an Identifier feature         *)
(* expanded over two or more attributes, every attribute's transform, not  *)
(* only the last one's.                                                    *)
(***************************************************************************)
C9_RegistryKeepsEveryTransform ==
    ret.returned =>
        /\ DOMAIN ret.transforms =
             Range(ret.float_feature_order) \cup Range(ret.id_feature_order)
        /\ \A k \in 1..Len(fitted) :
             ret.transforms[fitted[k].key] = fitted[k].preprocessor

(***************************************************************************)
(* C5.  A raw row is excluded from the returned dataset exactly when its   *)
(* reward or the value of one of the features of float_feature_order (the  *)
(* declared N and C features) is missing; such a row is excluded from      *)
(* targets, dense features and identifier sequences alike; every returned  *)
(* row has a non-missing target; no row is excluded for another reason.    *)
(* (The reward is a sum of 0-filled metrics and is never missing.)         *)
(***************************************************************************)
FloatFeatures ==
    {params.features[i].name :
        i \in {j \in 1..Len(params.features) : params.features[j].type \in {"N", "C"}}}

\* record r has no value for feature f (X["decision"] is the decision column)
Lacks(r, f) ==
    IF f = "decision" THEN Raw(r).decision = <<>> ELSE f \notin DOMAIN Raw(r).context

ReturnedAlike ==
    ret.returned =>
        /\ Recs(ret.y) = Recs(X.rows)
        /\ \A i \in 1..Len(ret.y) : ~ret.y[i].na
        /\ ret.X_float.columns # <<>> => Len(ret.X_float.rows) = Len(ret.y)
        /\ ret.X_id_list.columns # <<>> => Len(ret.X_id_list.rows) = Len(ret.y)

ContextKeys == UNION {DOMAIN raw_data[i].context : i \in 1..Len(raw_data)}

AssignedDecision(i) ==
    raw_data[CHOOSE j \in 1..Len(raw_data) : raw_data[j].index = i - 1].decision

Complete(i) ==
    /\ \A k \in ContextKeys : k \in DOMAIN raw_data[i].context
    /\ AssignedDecision(i) # <<>>

RECURSIVE CompleteRecsFrom(_)
CompleteRecsFrom(i) ==
    IF i > Len(raw_data) THEN <<>>
    ELSE (IF Complete(i) THEN <<raw_data[i].rec>> ELSE <<>>) \o CompleteRecsFrom(i + 1)

UnknownIdentifier ==
    \E i \in 1..Len(params.features) :
        LET meta == params.features[i]
        IN  /\ meta.type = "P"
            /\ meta.use_dense
            /\ meta.product_set_id \in DOMAIN params.product_sets
            /\ "dense" \in DOMAIN params.product_sets[meta.product_set_id]
            /\ meta.name \in X.columns
            /\ \E r \in 1..Len(X.rows) :
                 X.rows[r].cells[meta.name].v
                    \notin DOMAIN params.product_sets[meta.product_set_id].dense

C8_UnknownIdentifierFailsTheBatch ==
    (AfterDropna /\ UnknownIdentifier) =>
        /\ pc # "done"
        /\ ret = NoResult

\* the lookup raised after the float features had been encoded
C8_Witness ==
    /\ pc = "raised"
    /\ exc = "KeyError: dense"
    /\ UnknownIdentifier
    /\ Len(X.rows) >= 2
    /\ fitted # <<>>
    /\ ret = NoResult

====
